---- MODULE Spec2Model ----
(***************************************************************************)
(* Hyperliquid funding tracker: the recent-rates CSV store (src/storage),  *)
(* the snapshot collector with its retry loop (src/scheduler), the         *)
(* collector entry point (run_collector), and the paginated history        *)
(* backfill (src/history_fetcher).                                         *)
(*                                                                         *)
(* Numbers the program holds as floats are modelled as integers in a fixed *)
(* unit; CSV text is modelled as sequences of one-character strings, so    *)
(* that writing a number and reading it back are two different functions.  *)
(* Wall-clock instants are naturals.                                       *)
(***************************************************************************)
EXTENDS Integers, Sequences, FiniteSets, TLC

\* ---------------------------------------------------------------- bounds
\* Symbols of the full-history file the history dashboard reads.
MaxRankSymbols == 45
\* append_funding_rates calls in one behaviour.
MaxExports == 3
\* Successful snapshot fetches in one behaviour (each takes a new timestamp).
MaxClock == 3
\* Symbols the exchange lists at most.
MaxSyms == 2
\* Entries of the coins list of one backfill.
MaxCoins == 2
\* Full pages of the longest funding history the exchange holds.
MaxFullPages == 2

\* ------------------------------------------------------- program constants
MAX_RETRIES == 3
RETRY_DELAY_SECONDS == 30
COLLECTION_INTERVAL_HOURS == 1
\* time.sleep(60) of the scheduler loop
LOOP_SLEEP_SECONDS == 60
\* the page size of fundingHistory: `if len(data) < 500`
PAGE_LIMIT == 500

\* `if len(mean_rates) > 40` of the ranking panel
RANK_LIMIT == 40
\* mean_rates.head(20), mean_rates.tail(20)
RANK_SIDE == 20

\* pd.Timestamp("2024-12-31").date(): the days of the history dashboard
\* count from this date.
CUTOFF_DAY == 0

AllSymbols == <<"BTC", "ETH", "SOL">>
\* the order in which the exchange lists its symbols
Universe == <<"ETH", "BTC", "SOL">>
\* funding levels of a response (fixed-point units); the i-th asset context
\* carries i times the level
FundingVals == {-3, 12}
\* days arguments of load_funding_rates
DaysArgs == {0, 1}
\* markPx of the i-th listed symbol
MarkPx(i) == 205 + 13 * i

VARIABLES
    recentFile,     \* data/funding_rates.csv: [exists, lines]
    clock,          \* number of timestamps handed out by datetime.now
    savedRuns,      \* history of the snapshots save_funding_rates has written
    proc,           \* run_collector.main: "none" | "once" | "scheduler"
    use_sheets,     \* args.sheets of the running process
    exitCode,       \* status of the last --once process (-1: none yet)
    schedPc,        \* run_scheduler: position
    untilDue,       \* seconds until the registered job's next_run (-1: no job)
    immediateRuns,  \* collections run_scheduler made before registering
    jobsRegistered, \* jobs registered with schedule
    pc,             \* collect_funding_rates: position
    attempt,        \* collect_funding_rates: loop variable
    rates,          \* collect_funding_rates: the fetched snapshot
    result,         \* collect_funding_rates: "none" | "True" | "False"
    nRaised,        \* attempts of this call that raised
    nSaves,         \* save_funding_rates calls of this call that completed
    nExports,       \* append_funding_rates calls of this call
    nDelays,        \* time.sleep(RETRY_DELAY_SECONDS) calls of this call
    lastExport,     \* outcome of the export of this call
    view,           \* the result of the read or fetch that just completed
    exchangeHist,   \* per coin, the shape of the history the exchange holds
    coins,          \* fetch_all_funding_history: the coins list
    historyFile,    \* data/funding_history.csv: [exists, rows]
    fileAtStart,    \* historyFile as the backfill found it
    hpc,            \* fetch_all_funding_history: position
    idx,            \* fetch_all_funding_history: enumerate index, from 1
    hAttempt,       \* fetch_all_funding_history: attempt, from 1
    all_rows,       \* fetch_all_funding_history: the accumulated rows
    fetched,        \* per coins entry, whether a call returned
    start_time,     \* fetch_funding_history: startTime of the next request
    fh_rows,        \* fetch_funding_history: its all_rows
    pageSizes,      \* fetch_funding_history: sizes of the pages received
    startTimes,     \* fetch_funding_history: the startTime of each request
    returned,       \* the table fetch_all_funding_history returned
    histExit,       \* exit status of run_history.main (-1: still running)
    dropped,        \* rows the symbol's last raising attempt had fetched
    remote,         \* Google side: the spreadsheet, its sharing, its worksheet
    spc,            \* append_funding_rates: position
    sCalls,         \* append_funding_rates calls started
    sCreated,       \* what the current call has created
    sResult,        \* what the last call returned: "none" | "url" | "None"
    dFile,          \* data/funding_history.csv as the history dashboard finds it
    dpc,            \* history_dashboard script: position
    dRange,         \* the date range chosen in the sidebar
    display,        \* the rows of the ranking panel
    rFile,          \* the recent-rates file two collectors save to at once
    rpc,            \* per collector, its position in save_funding_rates
    rSeen,          \* per collector, its file_exists
    rRows           \* per collector, the records it saves

storeVars == <<recentFile, clock, savedRuns>>
mainVars == <<proc, use_sheets, exitCode>>
schedVars == <<schedPc, untilDue, immediateRuns, jobsRegistered>>
collectVars == <<pc, attempt, rates, result, nRaised, nSaves, nExports, nDelays,
                 lastExport>>
collectorVars == <<storeVars, mainVars, schedVars, collectVars, view>>
historyVars == <<exchangeHist, coins, historyFile, fileAtStart, hpc, idx, hAttempt,
                 all_rows, fetched, start_time, fh_rows, pageSizes,
                 startTimes, returned, histExit, dropped>>
sheetVars == <<remote, spc, sCalls, sCreated, sResult>>
dashVars == <<dFile, dpc, dRange, display>>
raceVars == <<rFile, rpc, rSeen, rRows>>
vars == <<collectorVars, historyVars, sheetVars, dashVars, raceVars>>

\* ------------------------------------------------------------- CSV text
DigitChars == <<"0", "1", "2", "3", "4", "5", "6", "7", "8", "9">>

RECURSIVE ToDigits(_)
ToDigits(n) ==
    IF n < 10 THEN <<DigitChars[n + 1]>>
    ELSE ToDigits(n \div 10) \o <<DigitChars[(n % 10) + 1]>>

\* A float written without its sign.
FloatReprUnsigned(x) == IF x < 0 THEN ToDigits(-x) ELSE ToDigits(x)

\* repr of a float, as to_csv writes it
FloatRepr(x) == IF x < 0 THEN <<"-">> \o ToDigits(-x) ELSE ToDigits(x)

DigitVal(c) == CHOOSE d \in 0..9 : DigitChars[d + 1] = c

RECURSIVE ParseDigits(_)
ParseDigits(s) ==
    IF s = <<>> THEN 0
    ELSE 10 * ParseDigits(SubSeq(s, 1, Len(s) - 1)) + DigitVal(s[Len(s)])

\* read_csv's conversion of a numeric field
ParseFloat(s) ==
    IF s # <<>> /\ s[1] = "-" THEN 0 - ParseDigits(Tail(s)) ELSE ParseDigits(s)

RECURSIVE ZeroPad(_)
ZeroPad(ds) == IF Len(ds) < 4 THEN ZeroPad(<<"0">> \o ds) ELSE ds

\* datetime.isoformat(): fixed-width text
IsoFormat(t) == ZeroPad(ToDigits(t))

\* pd.to_datetime of an ISO text
ToDatetime(s) == ParseDigits(s)

\* ------------------------------------------------------- src/storage.py
\* The columns of pd.DataFrame(rates): the keys of the fetched records.
SnapshotColumns ==
    <<"timestamp", "symbol", "funding_rate", "mark_price", "day_ntl_vlm",
      "open_interest">>

\* The columns of the empty frame load_funding_rates builds for an absent file.
CanonicalColumns == <<"timestamp", "symbol", "funding_rate", "mark_price">>

HeaderLine == [i \in 1..Len(SnapshotColumns) |-> <<SnapshotColumns[i]>>]

\* One record as a CSV line: six fields of text.
RowLine(r) ==
    <<r.timestamp, <<r.symbol>>, FloatRepr(r.funding_rate),
      FloatRepr(r.mark_price), FloatRepr(r.day_ntl_vlm),
      FloatRepr(r.open_interest)>>

\* What df.to_csv(mode='a', header=header, index=False) appends.  A frame
\* built from an empty list has no columns: its header is an empty line, and
\* without header it writes nothing.
ToCsvLines(rows, header) ==
    IF rows = <<>>
    THEN IF header THEN << <<>> >> ELSE <<>>
    ELSE (IF header THEN <<HeaderLine>> ELSE <<>>)
         \o [i \in 1..Len(rows) |-> RowLine(rows[i])]

AbsentFile == [exists |-> FALSE, lines |-> <<>>]

\* to_csv with mode='w': the file is written anew.
SaveTruncating(file, rows) ==
    [exists |-> TRUE, lines |-> ToCsvLines(rows, ~file.exists)]

\* save_funding_rates: the file after the call.
SaveFundingRates(file, rows) ==
    LET file_exists == file.exists
    IN [exists |-> TRUE,
        lines |-> file.lines \o ToCsvLines(rows, ~file_exists)]

\* pd.read_csv: blank lines are skipped, the first line left is the header.
ReadCsv(lines) ==
    LET kept == SelectSeq(lines, LAMBDA l : l # <<>>)
    IN IF kept = <<>>
       THEN [ok |-> FALSE, columns |-> <<>>, data |-> <<>>]
       ELSE [ok |-> TRUE,
             columns |-> [i \in 1..Len(Head(kept)) |-> Head(kept)[i][1]],
             data |-> Tail(kept)]

HasColumn(columns, name) == \E i \in 1..Len(columns) : columns[i] = name

ColumnIndex(columns, name) ==
    CHOOSE i \in 1..Len(columns) : columns[i] = name

\* One parsed row of the recent-rates table.
ParseRow(columns, line) ==
    [timestamp |-> ToDatetime(line[ColumnIndex(columns, "timestamp")]),
     symbol |-> line[ColumnIndex(columns, "symbol")][1],
     funding_rate |-> ParseFloat(line[ColumnIndex(columns, "funding_rate")]),
     mark_price |-> ParseFloat(line[ColumnIndex(columns, "mark_price")]),
     day_ntl_vlm |-> ParseFloat(line[ColumnIndex(columns, "day_ntl_vlm")]),
     open_interest |-> ParseFloat(line[ColumnIndex(columns, "open_interest")])]

Raised == [ok |-> FALSE, columns |-> <<>>, rows |-> <<>>]

\* df.sort_values("timestamp")
SortByTimestamp(rows) ==
    SortSeq(rows, LAMBDA a, b : a.timestamp < b.timestamp)

\* load_funding_rates without its test for the file: read_csv raises
\* FileNotFoundError when the file is absent.
LoadWithoutExistsCheck(file) ==
    LET csv == ReadCsv(file.lines)
    IN IF ~file.exists \/ ~csv.ok \/ ~HasColumn(csv.columns, "timestamp")
       THEN Raised
       ELSE [ok |-> TRUE,
             columns |-> csv.columns,
             rows |-> SortByTimestamp(
                 [i \in 1..Len(csv.data) |->
                     ParseRow(csv.columns, csv.data[i])])]

\* load_funding_rates(days=None): ok = FALSE when the call raises
\* (EmptyDataError of read_csv, KeyError of df["timestamp"]).
LoadFundingRates(file) ==
    IF ~file.exists
    THEN [ok |-> TRUE, columns |-> CanonicalColumns, rows |-> <<>>]
    ELSE LET csv == ReadCsv(file.lines)
         IN IF ~csv.ok \/ ~HasColumn(csv.columns, "timestamp")
            THEN Raised
            ELSE [ok |-> TRUE,
                  columns |-> csv.columns,
                  rows |-> SortByTimestamp(
                      [i \in 1..Len(csv.data) |->
                          ParseRow(csv.columns, csv.data[i])])]

\* load_funding_rates(days) at the instant now, the unit of time being the
\* day: the rows not older than the cutoff now - days are kept.
LoadFundingRatesDays(file, days, now) ==
    LET df == LoadFundingRates(file)
    IN IF ~file.exists \/ ~df.ok
       THEN df
       ELSE LET cutoff == now - days
            IN [df EXCEPT !.rows =
                   SelectSeq(df.rows, LAMBDA r : r.timestamp >= cutoff)]

SeqMax(s) == CHOOSE m \in {s[i] : i \in 1..Len(s)} :
                 \A i \in 1..Len(s) : s[i] <= m

\* get_latest_rates
GetLatestRates(file) ==
    LET df == LoadFundingRates(file)
    IN IF ~df.ok \/ df.rows = <<>>
       THEN df
       ELSE LET latest_timestamp ==
                    SeqMax([i \in 1..Len(df.rows) |-> df.rows[i].timestamp])
            IN [df EXCEPT !.rows =
                   SelectSeq(df.rows,
                             LAMBDA r : r.timestamp = latest_timestamp)]

\* Python's order of the symbol strings: the place in AllSymbols.
SymbolBefore(a, b) ==
    \E i, j \in 1..Len(AllSymbols) :
        AllSymbols[i] = a /\ AllSymbols[j] = b /\ i < j

\* Series.unique(): the values in the order of their first appearance.
RECURSIVE Unique(_)
Unique(q) ==
    IF q = <<>> THEN <<>>
    ELSE LET front == Unique(SubSeq(q, 1, Len(q) - 1))
             last == q[Len(q)]
         IN IF \E i \in 1..Len(front) : front[i] = last
            THEN front ELSE Append(front, last)

\* get_available_symbols
GetAvailableSymbols(file) ==
    LET df == LoadFundingRates(file)
    IN IF ~df.ok THEN Raised
       ELSE IF df.rows = <<>>
       THEN [ok |-> TRUE, columns |-> <<>>, rows |-> <<>>]
       ELSE [ok |-> TRUE, columns |-> <<>>,
             rows |-> SortSeq(Unique([i \in 1..Len(df.rows) |->
                                         df.rows[i].symbol]),
                              SymbolBefore)]

\* ------------------------------------------------------- src/fetcher.py
\* fetch_funding_rates on a response with nC asset contexts, the i-th
\* carrying i * funding; every row is stamped with the one timestamp t.
SnapshotRows(nC, funding, t) ==
    [i \in 1..nC |->
        [timestamp |-> IsoFormat(t),
         symbol |-> Universe[i],
         funding_rate |-> i * funding,
         mark_price |-> MarkPx(i),
         day_ntl_vlm |-> 0,
         open_interest |-> 0]]

\* fetch_funding_rates on a response listing nU symbols and nC asset
\* contexts: universe[i] raises IndexError when the contexts outnumber the
\* symbols; the loop runs over the contexts alone.
FetchFundingRates(nU, nC, funding, t) ==
    IF nC > nU
    THEN Raised
    ELSE [ok |-> TRUE, columns |-> SnapshotColumns,
          rows |-> SnapshotRows(nC, funding, t)]

\* ------------------------------------------------------------- the state
NoView == [op |-> "none", res |-> Raised]

CollectorInit ==
    /\ recentFile = AbsentFile
    /\ clock = 0
    /\ savedRuns = <<>>
    /\ proc = "none"
    /\ use_sheets = FALSE
    /\ exitCode = -1
    /\ schedPc = "off"
    /\ untilDue = -1
    /\ immediateRuns = 0
    /\ jobsRegistered = 0
    /\ pc = "idle"
    /\ attempt = 0
    /\ rates = <<>>
    /\ result = "none"
    /\ nRaised = 0
    /\ nSaves = 0
    /\ nExports = 0
    /\ nDelays = 0
    /\ lastExport = "none"
    /\ view = NoView

\* Nothing exists on the Google side and no export is running.
NoRemote ==
    [spreadsheet |-> FALSE, shares |-> 0, worksheet |-> FALSE, headers |-> 0,
     batches |-> 0]

NothingCreated == [spreadsheet |-> FALSE, worksheet |-> FALSE]

SheetsIdle ==
    /\ remote = NoRemote
    /\ spc = "idle"
    /\ sCalls = 0
    /\ sCreated = NothingCreated
    /\ sResult = "none"

\* No two collectors are saving at once.
RaceIdle ==
    /\ rFile = AbsentFile
    /\ rpc = <<"off", "off">>
    /\ rSeen = <<FALSE, FALSE>>
    /\ rRows = << <<>>, <<>> >>

\* The history dashboard is not open.
DashIdle ==
    /\ dFile = [exists |-> FALSE, header |-> FALSE, rows |-> <<>>]
    /\ dpc = "off"
    /\ dRange = <<0, 0>>
    /\ display = <<>>

\* ------------------------------------------- src/history_fetcher.py
HistCoins == <<"ETH", "BTC">>

\* Python's order of the symbol strings.
SymbolRank(sym) == CHOOSE i \in 1..Len(AllSymbols) : AllSymbols[i] = sym

\* The exchange's history of a coin has the shape [n, dup]: n entries in
\* ascending time, 500 ms apart and the first at time 0; with dup, entries
\* come in pairs sharing one time, entry 1 alone (a pair then lies across
\* the end of the first page).
HistLens ==
    {k * PAGE_LIMIT : k \in 0..MaxFullPages} \cup {PAGE_LIMIT - 1}

HistShapes ==
    {s \in [n : HistLens, dup : BOOLEAN] : s.dup => s.n > PAGE_LIMIT}

NoHistory == [n |-> 0, dup |-> FALSE]

EntryTime(shape, i) ==
    IF shape.dup THEN 500 * (i \div 2) ELSE 500 * (i - 1)

\* The i-th entry of a coin's history, as the exchange serves it.
Entry(coin, shape, i) ==
    [time |-> EntryTime(shape, i),
     coin |-> coin,
     fundingRate |-> (i % 5) - 2,
     premium |-> i % 3]

\* The exchange's answer to fundingHistory(coin, startTime): the (at most
\* PAGE_LIMIT) earliest entries with time >= startTime, in ascending time.
FundingPage(coin, shape, startTime) ==
    LET later == {i \in 1..shape.n : EntryTime(shape, i) >= startTime}
        first == IF later = {} THEN shape.n + 1
                 ELSE CHOOSE i \in later : \A j \in later : i <= j
        size == IF shape.n + 1 - first < PAGE_LIMIT
                THEN shape.n + 1 - first ELSE PAGE_LIMIT
    IN [k \in 1..size |-> Entry(coin, shape, first + k - 1)]

\* datetime.fromtimestamp(ms / 1000, tz=utc).isoformat(): the text is the
\* seconds, and the fraction unless it is zero.  Texts order by the seconds
\* and then by the fraction, the text without fraction first.
IsoOfMillis(ms) == [sec |-> ms \div 1000, frac |-> ms % 1000]

TextLess(a, b) == a.sec < b.sec \/ (a.sec = b.sec /\ a.frac < b.frac)

\* The row fetch_funding_history makes of an entry.
HistoryRow(entry) ==
    [timestamp |-> IsoOfMillis(entry.time),
     symbol |-> entry.coin,
     funding_rate |-> entry.fundingRate,
     premium |-> entry.premium]

\* The loop ending on a full page too: `if len(data) <= 500`.
PageStepStopsOnFull(rows, startTime, data) ==
    IF data = <<>>
    THEN [rows |-> rows, stop |-> TRUE, start_time |-> startTime]
    ELSE [rows |-> rows \o [i \in 1..Len(data) |-> HistoryRow(data[i])],
          stop |-> TRUE, start_time |-> startTime]

\* The next page starting at the last entry's time: the `+ 1` left out.
PageStepSameMilli(rows, startTime, data) ==
    IF data = <<>>
    THEN [rows |-> rows, stop |-> TRUE, start_time |-> startTime]
    ELSE LET more == rows \o [i \in 1..Len(data) |-> HistoryRow(data[i])]
         IN IF Len(data) < PAGE_LIMIT
            THEN [rows |-> more, stop |-> TRUE, start_time |-> startTime]
            ELSE [rows |-> more, stop |-> FALSE,
                  start_time |-> data[Len(data)].time]

\* One iteration of the loop of fetch_funding_history on the page `data`:
\* the rows afterwards, whether the loop ends, and the next startTime.
PageStep(rows, startTime, data) ==
    IF data = <<>>
    THEN [rows |-> rows, stop |-> TRUE, start_time |-> startTime]
    ELSE LET more == rows \o [i \in 1..Len(data) |-> HistoryRow(data[i])]
         IN IF Len(data) < PAGE_LIMIT
            THEN [rows |-> more, stop |-> TRUE, start_time |-> startTime]
            ELSE [rows |-> more, stop |-> FALSE,
                  start_time |-> data[Len(data)].time + 1]

\* fetch_funding_history(coin) as a function of the exchange's history: the
\* rows it returns when no request raises.
RECURSIVE Paginate(_, _, _, _)
Paginate(coin, shape, rows, startTime) ==
    LET step == PageStep(rows, startTime, FundingPage(coin, shape, startTime))
    IN IF step.stop THEN step.rows
       ELSE Paginate(coin, shape, step.rows, step.start_time)

\* The order of df.sort_values(["symbol", "timestamp"]) on the two text
\* columns.
RowBefore(a, b) ==
    \/ SymbolRank(a.symbol) < SymbolRank(b.symbol)
    \/ a.symbol = b.symbol /\ TextLess(a.timestamp, b.timestamp)

\* The rows of the symbols of rank k and above, by symbol and then by
\* timestamp.
RECURSIVE SortFromRank(_, _)
SortFromRank(rows, k) ==
    IF k > Len(AllSymbols) THEN <<>>
    ELSE SortSeq(SelectSeq(rows, LAMBDA r : SymbolRank(r.symbol) = k),
                 LAMBDA a, b : TextLess(a.timestamp, b.timestamp))
         \o SortFromRank(rows, k + 1)

\* df.sort_values(["symbol", "timestamp"])
SortHistory(rows) == SortFromRank(rows, 1)

NoHistoryFile == [exists |-> FALSE, rows |-> <<>>]

\* A file an earlier backfill left.
StaleHistoryFile ==
    [exists |-> TRUE,
     rows |-> <<HistoryRow(Entry("SOL", NoHistory, 1))>>]

\* to_csv with mode='a': the table is appended to the file.
WriteHistoryAppending(file, rows) ==
    IF rows # <<>>
    THEN [exists |-> TRUE, rows |-> file.rows \o SortHistory(rows)]
    ELSE file

\* The tail of fetch_all_funding_history: the file after the call.
WriteHistory(file, rows) ==
    IF rows # <<>>
    THEN [exists |-> TRUE, rows |-> SortHistory(rows)]
    ELSE file

\* The table fetch_all_funding_history returns.
ReturnedTable(rows) == IF rows # <<>> THEN SortHistory(rows) ELSE <<>>

CoinLists ==
    UNION {[1..n -> {HistCoins[i] : i \in 1..Len(HistCoins)}] : n \in 0..MaxCoins}

HistoryIdle ==
    /\ exchangeHist = [c \in {HistCoins[i] : i \in 1..Len(HistCoins)} |-> NoHistory]
    /\ coins = <<>>
    /\ historyFile = NoHistoryFile
    /\ fileAtStart = NoHistoryFile
    /\ hpc = "off"
    /\ idx = 0
    /\ hAttempt = 0
    /\ all_rows = <<>>
    /\ fetched = <<>>
    /\ start_time = 0
    /\ fh_rows = <<>>
    /\ pageSizes = <<>>
    /\ startTimes = <<>>
    /\ returned = <<>>
    /\ histExit = -1
    /\ dropped = 0

\* A backfill about to start: the coins list (given, or what the exchange
\* lists), the histories of the coins in it, and the file as found.
HistoryScenario ==
    /\ coins \in CoinLists
    /\ exchangeHist \in [{HistCoins[i] : i \in 1..Len(HistCoins)} -> HistShapes]
    /\ \A c \in DOMAIN exchangeHist :
          (\A i \in 1..Len(coins) : coins[i] # c) => exchangeHist[c] = NoHistory
    /\ historyFile \in {NoHistoryFile, StaleHistoryFile}
    /\ fileAtStart = historyFile
    /\ hpc = "start"
    /\ idx = 0
    /\ hAttempt = 0
    /\ all_rows = <<>>
    /\ fetched = [i \in 1..Len(coins) |-> FALSE]
    /\ start_time = 0
    /\ fh_rows = <<>>
    /\ pageSizes = <<>>
    /\ startTimes = <<>>
    /\ returned = <<>>
    /\ histExit = -1
    /\ dropped = 0

\* The for loop moves to the symbol after idx, or leaves the loop.
NextSymbol ==
    /\ dropped' = 0
    /\ IF idx < Len(coins)
       THEN /\ idx' = idx + 1
            /\ hAttempt' = 1
            /\ hpc' = "call"
       ELSE /\ hpc' = "finish"
            /\ UNCHANGED <<idx, hAttempt>>

\* fetch_funding_history has returned or raised: its locals are gone.
LeaveFetchHistory ==
    /\ start_time' = 0
    /\ fh_rows' = <<>>
    /\ pageSizes' = <<>>
    /\ startTimes' = <<>>

\* coins is None and get_all_symbols() raises: the call raises.
SymbolsRaise ==
    /\ hpc = "start"
    /\ hpc' = "raised"
    /\ UNCHANGED <<exchangeHist, coins, historyFile, fileAtStart, idx, hAttempt, all_rows,
                   fetched, start_time, fh_rows, pageSizes, startTimes,
                   returned>>
    /\ UNCHANGED <<histExit, collectorVars, sheetVars, dashVars, raceVars>>
    /\ UNCHANGED dropped

\* The coins are given or get_all_symbols() returns them: the loop starts.
StartBackfill ==
    /\ hpc = "start"
    /\ NextSymbol
    /\ UNCHANGED <<exchangeHist, coins, historyFile, fileAtStart, all_rows, fetched,
                   start_time, fh_rows, pageSizes, startTimes, returned>>
    /\ UNCHANGED <<histExit, collectorVars, sheetVars, dashVars, raceVars>>

\* rows = fetch_funding_history(coin): entry of the call.
CallFetchHistory ==
    /\ hpc = "call"
    /\ start_time' = 0
    /\ fh_rows' = <<>>
    /\ pageSizes' = <<>>
    /\ startTimes' = <<>>
    /\ hpc' = "page"
    /\ UNCHANGED <<exchangeHist, coins, historyFile, fileAtStart, idx, hAttempt, all_rows,
                   fetched, returned>>
    /\ UNCHANGED <<histExit, collectorVars, sheetVars, dashVars, raceVars>>
    /\ UNCHANGED dropped

\* _fetch_funding_page raises: fetch_funding_history raises with it.
\* A variant in which the rows of the pages fetched before the raise are kept.
PageRaisesKeepsRows ==
    /\ hpc = "page"
    /\ hpc' = "except"
    /\ dropped' = Len(fh_rows)
    /\ all_rows' = all_rows \o fh_rows
    /\ LeaveFetchHistory
    /\ UNCHANGED <<exchangeHist, coins, historyFile, fileAtStart, idx, hAttempt,
                   fetched, returned>>
    /\ UNCHANGED <<histExit, collectorVars, sheetVars, dashVars, raceVars>>

PageRaises ==
    /\ hpc = "page"
    /\ hpc' = "except"
    /\ dropped' = Len(fh_rows)
    /\ LeaveFetchHistory
    /\ UNCHANGED <<exchangeHist, coins, historyFile, fileAtStart, idx, hAttempt, all_rows,
                   fetched, returned>>
    /\ UNCHANGED <<histExit, collectorVars, sheetVars, dashVars, raceVars>>

\* _fetch_funding_page returns a page: one iteration of the while loop.
PageReturns ==
    /\ hpc = "page"
    /\ LET data == FundingPage(coins[idx], exchangeHist[coins[idx]], start_time)
           step == PageStep(fh_rows, start_time, data)
       IN /\ startTimes' = Append(startTimes, start_time)
          /\ pageSizes' = Append(pageSizes, Len(data))
          /\ fh_rows' = step.rows
          /\ start_time' = step.start_time
          /\ hpc' = IF step.stop THEN "fh_return" ELSE "page"
    /\ UNCHANGED <<exchangeHist, coins, historyFile, fileAtStart, idx, hAttempt, all_rows,
                   fetched, returned>>
    /\ UNCHANGED <<histExit, collectorVars, sheetVars, dashVars, raceVars>>
    /\ UNCHANGED dropped

\* fetch_funding_history returned: all_rows.extend(rows); break.
FetchHistoryReturns ==
    /\ hpc = "fh_return"
    /\ all_rows' = all_rows \o fh_rows
    /\ fetched' = [fetched EXCEPT ![idx] = TRUE]
    /\ NextSymbol
    /\ LeaveFetchHistory
    /\ UNCHANGED <<exchangeHist, coins, historyFile, fileAtStart, returned>>
    /\ UNCHANGED <<histExit, collectorVars, sheetVars, dashVars, raceVars>>

\* The last attempt re-raising: the backfill ends with the error.
AfterLastAttemptRaises ==
    /\ hpc' = "raised"
    /\ UNCHANGED <<idx, hAttempt, dropped>>

\* The last attempt on a symbol raised: the error is logged and the for
\* loop goes on.
AfterLastAttempt == NextSymbol

\* The except clause: retry after the delay, or give the symbol up.
HistoryExcept ==
    /\ hpc = "except"
    /\ IF hAttempt < MAX_RETRIES
       THEN /\ hAttempt' = hAttempt + 1
            /\ hpc' = "call"
            /\ idx' = idx
            /\ dropped' = dropped
       ELSE AfterLastAttempt
    /\ UNCHANGED <<exchangeHist, coins, historyFile, fileAtStart, all_rows, fetched,
                   start_time, fh_rows, pageSizes, startTimes, returned>>
    /\ UNCHANGED <<histExit, collectorVars, sheetVars, dashVars, raceVars>>

\* After the loop: build the table, sort and write it unless it is empty.
FinishBackfill ==
    /\ hpc = "finish"
    /\ historyFile' = WriteHistory(historyFile, all_rows)
    /\ returned' = ReturnedTable(all_rows)
    /\ hpc' = "done"
    /\ UNCHANGED <<exchangeHist, coins, fileAtStart, idx, hAttempt, all_rows, fetched,
                   start_time, fh_rows, pageSizes, startTimes>>
    /\ UNCHANGED <<histExit, collectorVars, sheetVars, dashVars, raceVars>>
    /\ UNCHANGED dropped

\* run_history.main ending with status 0 whatever the backfill gave.
HistoryExitAlwaysZero(outcome, table) == 0

\* The status run_history.main ends with: 1 by sys.exit(1) on an empty
\* table and by the interpreter on an exception that nothing catches, 0 at
\* the end of main.
HistoryExitStatus(outcome, table) ==
    IF outcome = "raised" THEN 1
    ELSE IF table # <<>> THEN 0 ELSE 1

\* run_history.main after fetch_all_funding_history returned or raised.
HistoryMainExit ==
    /\ hpc \in {"done", "raised"}
    /\ histExit = -1
    /\ histExit' = HistoryExitStatus(hpc, returned)
    /\ UNCHANGED <<exchangeHist, coins, historyFile, fileAtStart, hpc, idx,
                   hAttempt, all_rows, fetched, start_time, fh_rows, pageSizes,
                   startTimes, returned>>
    /\ UNCHANGED <<collectorVars, sheetVars, dashVars, raceVars>>
    /\ UNCHANGED dropped

Init == CollectorInit /\ HistoryIdle /\ SheetsIdle /\ DashIdle /\ RaceIdle

HistoryInit == CollectorInit /\ HistoryScenario /\ SheetsIdle /\ DashIdle /\ RaceIdle

HistoryNext ==
    \/ SymbolsRaise
    \/ StartBackfill
    \/ CallFetchHistory
    \/ PageRaises
    \/ PageReturns
    \/ FetchHistoryReturns
    \/ HistoryExcept
    \/ FinishBackfill
    \/ HistoryMainExit

\* The backfill is one sequential thread, and every request it makes ends
\* (it has a timeout).
SpecHistory == HistoryInit /\ [][HistoryNext]_vars /\ WF_vars(HistoryNext)

\* ------------------------------------------------- src/scheduler.py
\* Entry of collect_funding_rates: the first iteration of the retry loop.
EnterCollect ==
    /\ pc' = "fetch"
    /\ attempt' = 0
    /\ rates' = <<>>
    /\ result' = "none"
    /\ nRaised' = 0
    /\ nSaves' = 0
    /\ nExports' = 0
    /\ nDelays' = 0
    /\ lastExport' = "none"

\* collect_funding_rates has returned to its caller: its locals are gone.
LeaveCollect ==
    /\ pc' = "idle"
    /\ attempt' = 0
    /\ rates' = <<>>
    /\ result' = "none"
    /\ nRaised' = 0
    /\ nSaves' = 0
    /\ nExports' = 0
    /\ nDelays' = 0
    /\ lastExport' = "none"

\* rates = fetch_funding_rates() raises: transport error or non-2xx status.
FetchRaises ==
    /\ pc = "fetch"
    /\ pc' = "except"
    /\ UNCHANGED <<attempt, rates, result, nRaised, nSaves, nExports, nDelays,
                   lastExport>>
    /\ UNCHANGED <<storeVars, mainVars, schedVars>>
    /\ view' = NoView
    /\ UNCHANGED <<historyVars, sheetVars, dashVars, raceVars>>

\* rates = fetch_funding_rates() on a response listing nU symbols and nC
\* asset contexts: universe[i] raises IndexError when nC > nU.
FetchResponds ==
    /\ pc = "fetch"
    /\ clock < MaxClock
    /\ \E nU \in 0..MaxSyms, nC \in 0..MaxSyms :
         \E funding \in FundingVals :
            LET got == FetchFundingRates(nU, nC, funding, clock + 1)
            IN /\ view' = [op |-> "fetch_funding_rates", res |-> got,
                           nU |-> nU, nC |-> nC]
               /\ IF ~got.ok
                  THEN /\ pc' = "except"
                       /\ UNCHANGED <<rates, clock>>
                  ELSE /\ pc' = "save"
                       /\ clock' = clock + 1
                       /\ rates' = got.rows
    /\ UNCHANGED <<attempt, result, nRaised, nSaves, nExports, nDelays,
                   lastExport>>
    /\ UNCHANGED <<recentFile, savedRuns, mainVars, schedVars>>
    /\ UNCHANGED <<historyVars, sheetVars, dashVars, raceVars>>

\* save_funding_rates(rates) raises before it writes (the directory or the
\* file cannot be opened).
SaveRaises ==
    /\ pc = "save"
    /\ pc' = "except"
    /\ UNCHANGED <<attempt, rates, result, nRaised, nSaves, nExports, nDelays,
                   lastExport>>
    /\ UNCHANGED <<storeVars, mainVars, schedVars>>
    /\ view' = NoView
    /\ UNCHANGED <<historyVars, sheetVars, dashVars, raceVars>>

\* save_funding_rates(rates) completes; then the export if use_sheets, else
\* return True.
SaveCompletes ==
    /\ pc = "save"
    /\ recentFile' = SaveFundingRates(recentFile, rates)
    /\ savedRuns' = Append(savedRuns, [at |-> clock, rows |-> rates])
    /\ nSaves' = nSaves + 1
    /\ IF use_sheets
       THEN pc' = "sheets" /\ result' = result
       ELSE pc' = "return" /\ result' = "True"
    /\ UNCHANGED <<attempt, rates, nRaised, nExports, nDelays, lastExport>>
    /\ UNCHANGED <<clock, mainVars, schedVars>>
    /\ view' = NoView
    /\ UNCHANGED <<historyVars, sheetVars, dashVars, raceVars>>

\* The export without its own try: a raising export reaches the outer
\* except clause.
AfterExportUnguarded(outcome) ==
    IF outcome = "raised" THEN "except" ELSE "return"

\* Where the inner try leaves collect_funding_rates after the export: its
\* except clause only logs.
AfterExport(outcome) == "return"

\* The inner try: append_funding_rates(rates) returns a URL, returns None,
\* or the import or the call raises; then return True.
ExportStep ==
    /\ pc = "sheets"
    /\ \E outcome \in {"url", "None", "raised"} :
          /\ lastExport' = outcome
          /\ pc' = AfterExport(outcome)
    /\ nExports' = nExports + 1
    /\ result' = IF pc' = "return" THEN "True" ELSE result
    /\ UNCHANGED <<attempt, rates, nRaised, nSaves, nDelays>>
    /\ UNCHANGED <<storeVars, mainVars, schedVars>>
    /\ view' = NoView
    /\ UNCHANGED <<historyVars, sheetVars, dashVars, raceVars>>

\* The loop bound off by one: range(MAX_RETRIES + 1).
LoopContinuesOnceMore(a) == a < MAX_RETRIES

\* for attempt in range(MAX_RETRIES): whether an iteration follows attempt a.
LoopContinues(a) == a + 1 < MAX_RETRIES

\* time.sleep(RETRY_DELAY_SECONDS) after every failed attempt.
SleepsAfterEveryFailure(a) == TRUE

\* `if attempt < MAX_RETRIES - 1`: whether the except clause sleeps.
SleepsBeforeRetry(a) == a < MAX_RETRIES - 1

\* The except clause: sleep if another attempt follows, then the next
\* iteration, or return False after the loop.
ExceptStep ==
    /\ pc = "except"
    /\ nRaised' = nRaised + 1
    /\ nDelays' = IF SleepsBeforeRetry(attempt) THEN nDelays + 1 ELSE nDelays
    /\ IF LoopContinues(attempt)
       THEN /\ attempt' = attempt + 1
            /\ pc' = "fetch"
            /\ result' = result
       ELSE /\ attempt' = attempt
            /\ pc' = "return"
            /\ result' = "False"
    /\ UNCHANGED <<rates, nSaves, nExports, lastExport>>
    /\ UNCHANGED <<storeVars, mainVars, schedVars>>
    /\ view' = NoView
    /\ UNCHANGED <<historyVars, sheetVars, dashVars, raceVars>>

\* ------------------------------------------------- run_collector.py
\* main with --once: one collect_funding_rates call.
MainOnce ==
    /\ proc = "none"
    /\ proc' = "once"
    /\ \E sheets \in BOOLEAN : use_sheets' = sheets
    /\ exitCode' = -1
    /\ EnterCollect
    /\ UNCHANGED <<storeVars, schedVars>>
    /\ view' = NoView
    /\ UNCHANGED <<historyVars, sheetVars, dashVars, raceVars>>

\* sys.exit(0) whatever the collection returned.
OnceExitAlwaysZero ==
    /\ proc = "once"
    /\ pc = "return"
    /\ exitCode' = 0
    /\ proc' = "none"
    /\ LeaveCollect
    /\ UNCHANGED <<use_sheets, storeVars, schedVars>>
    /\ view' = NoView
    /\ UNCHANGED <<historyVars, sheetVars, dashVars, raceVars>>

\* sys.exit(0 if success else 1)
OnceExit ==
    /\ proc = "once"
    /\ pc = "return"
    /\ exitCode' = IF result = "True" THEN 0 ELSE 1
    /\ proc' = "none"
    /\ LeaveCollect
    /\ UNCHANGED <<use_sheets, storeVars, schedVars>>
    /\ view' = NoView
    /\ UNCHANGED <<historyVars, sheetVars, dashVars, raceVars>>

\* main without --once: run_scheduler, whose first statement after the
\* log lines is the immediate collection.
MainScheduler ==
    /\ proc = "none"
    /\ proc' = "scheduler"
    /\ \E sheets \in BOOLEAN : use_sheets' = sheets
    /\ schedPc' = "immediate"
    /\ untilDue' = -1
    /\ immediateRuns' = 0
    /\ jobsRegistered' = 0
    /\ exitCode' = -1
    /\ EnterCollect
    /\ UNCHANGED storeVars
    /\ view' = NoView
    /\ UNCHANGED <<historyVars, sheetVars, dashVars, raceVars>>

\* The immediate collection returns (its result is dropped).
ImmediateReturns ==
    /\ proc = "scheduler"
    /\ schedPc = "immediate"
    /\ pc = "return"
    /\ immediateRuns' = immediateRuns + 1
    /\ schedPc' = "register"
    /\ LeaveCollect
    /\ UNCHANGED <<untilDue, jobsRegistered, storeVars, mainVars>>
    /\ view' = NoView
    /\ UNCHANGED <<historyVars, sheetVars, dashVars, raceVars>>

\* The job registered with .minutes in place of .hours.
JobIntervalMinutes == COLLECTION_INTERVAL_HOURS * 60

\* The period of every(COLLECTION_INTERVAL_HOURS).hours, in seconds.
JobInterval == COLLECTION_INTERVAL_HOURS * 3600

\* schedule.every(COLLECTION_INTERVAL_HOURS).hours.do(collect_funding_rates)
RegisterJob ==
    /\ schedPc = "register"
    /\ jobsRegistered' = jobsRegistered + 1
    /\ untilDue' = JobInterval
    /\ schedPc' = "run_pending"
    /\ UNCHANGED <<immediateRuns, storeVars, mainVars, collectVars>>
    /\ view' = NoView
    /\ UNCHANGED <<historyVars, sheetVars, dashVars, raceVars>>

\* schedule.run_pending(): the job runs when its next_run has come.
RunPending ==
    /\ schedPc = "run_pending"
    /\ IF untilDue <= 0
       THEN /\ schedPc' = "job"
            /\ EnterCollect
       ELSE /\ schedPc' = "sleep"
            /\ UNCHANGED collectVars
    /\ UNCHANGED <<untilDue, immediateRuns, jobsRegistered, storeVars, mainVars>>
    /\ view' = NoView
    /\ UNCHANGED <<historyVars, sheetVars, dashVars, raceVars>>

\* The job returns: schedule sets next_run one interval ahead.
JobReturns ==
    /\ schedPc = "job"
    /\ pc = "return"
    /\ untilDue' = JobInterval
    /\ schedPc' = "sleep"
    /\ LeaveCollect
    /\ UNCHANGED <<immediateRuns, jobsRegistered, storeVars, mainVars>>
    /\ view' = NoView
    /\ UNCHANGED <<historyVars, sheetVars, dashVars, raceVars>>

\* time.sleep(60)
LoopSleep ==
    /\ schedPc = "sleep"
    /\ untilDue' = untilDue - LOOP_SLEEP_SECONDS
    /\ schedPc' = "run_pending"
    /\ UNCHANGED <<immediateRuns, jobsRegistered, storeVars, mainVars,
                   collectVars>>
    /\ view' = NoView
    /\ UNCHANGED <<historyVars, sheetVars, dashVars, raceVars>>

\* ------------------------------------------------- readers (dashboards)
\* A reader sees the file as the last completed call left it: the file
\* changes in SaveCompletes alone.
ReadLatest ==
    /\ pc = "return" \/ proc = "none"
    /\ view.op # "get_latest_rates"
    /\ view' = [op |-> "get_latest_rates", res |-> GetLatestRates(recentFile)]
    /\ UNCHANGED <<storeVars, mainVars, schedVars, collectVars>>
    /\ UNCHANGED <<historyVars, sheetVars, dashVars, raceVars>>

ReadAll ==
    /\ pc = "return" \/ proc = "none"
    /\ view.op # "load_funding_rates"
    /\ view' = [op |-> "load_funding_rates",
                res |-> LoadFundingRates(recentFile)]
    /\ UNCHANGED <<storeVars, mainVars, schedVars, collectVars>>
    /\ UNCHANGED <<historyVars, sheetVars, dashVars, raceVars>>

ReadSymbols ==
    /\ pc = "return" \/ proc = "none"
    /\ view.op # "get_available_symbols"
    /\ view' = [op |-> "get_available_symbols",
                res |-> GetAvailableSymbols(recentFile)]
    /\ UNCHANGED <<storeVars, mainVars, schedVars, collectVars>>
    /\ UNCHANGED <<historyVars, sheetVars, dashVars, raceVars>>

\* load_funding_rates(days=...) as the recent-rates dashboard calls it.
ReadRecent ==
    /\ pc = "return" \/ proc = "none"
    /\ view.op # "load_funding_rates_days"
    /\ \E days \in DaysArgs :
          view' = [op |-> "load_funding_rates_days",
                   res |-> LoadFundingRatesDays(recentFile, days, clock)]
    /\ UNCHANGED <<storeVars, mainVars, schedVars, collectVars>>
    /\ UNCHANGED <<historyVars, sheetVars, dashVars, raceVars>>

CollectorStep ==
    \/ FetchRaises
    \/ FetchResponds
    \/ SaveRaises
    \/ SaveCompletes
    \/ ExportStep
    \/ ExceptStep

ProgramStep ==
    \/ CollectorStep
    \/ OnceExit
    \/ ImmediateReturns
    \/ RegisterJob
    \/ RunPending
    \/ JobReturns
    \/ LoopSleep

Next ==
    \/ MainOnce
    \/ MainScheduler
    \/ ProgramStep
    \/ ReadLatest
    \/ ReadAll
    \/ ReadRecent
    \/ ReadSymbols

\* A started process keeps running: it is one sequential thread.
Spec == Init /\ [][Next]_vars /\ WF_vars(ProgramStep)

\* ------------------------------------------------------ src/sheets.py
\* A spreadsheet of the configured name made by hand: not shared, without
\* the worksheet.
HandMadeRemote == [NoRemote EXCEPT !.spreadsheet = TRUE]

SheetsScenario ==
    /\ remote \in {NoRemote, HandMadeRemote}
    /\ spc = "idle"
    /\ sCalls = 0
    /\ sCreated = NothingCreated
    /\ sResult = "none"

\* append_funding_rates is called: the try block is entered.
SheetsCall ==
    /\ spc = "idle"
    /\ sCalls < MaxExports
    /\ sCalls' = sCalls + 1
    /\ spc' = "auth"
    /\ sCreated' = NothingCreated
    /\ sResult' = "none"
    /\ UNCHANGED remote
    /\ UNCHANGED <<collectorVars, historyVars, dashVars, raceVars>>

\* The except clause letting the exception out of append_funding_rates.
SheetsExceptReraises == "raised"

\* except Exception: the error is logged and None is returned.
SheetsExcept == "None"

\* Any call inside the try block raises: the credentials file is absent,
\* the Google API refuses or cannot be reached, a record lacks a key.
SheetsStepRaises ==
    /\ spc \in {"auth", "open", "create", "share", "worksheet", "add_ws",
                "header", "append"}
    /\ sResult' = SheetsExcept
    /\ spc' = "idle"
    /\ UNCHANGED <<remote, sCalls, sCreated>>
    /\ UNCHANGED <<collectorVars, historyVars, dashVars, raceVars>>

\* get_gspread_client() returns a client.
AuthStep ==
    /\ spc = "auth"
    /\ spc' = "open"
    /\ UNCHANGED <<remote, sCalls, sCreated, sResult>>
    /\ UNCHANGED <<collectorVars, historyVars, dashVars, raceVars>>

\* get_or_create_spreadsheet: client.open returns the spreadsheet, or
\* raises SpreadsheetNotFound and the except clause goes on to create it.
OpenSpreadsheet ==
    /\ spc = "open"
    /\ spc' = IF remote.spreadsheet THEN "worksheet" ELSE "create"
    /\ UNCHANGED <<remote, sCalls, sCreated, sResult>>
    /\ UNCHANGED <<collectorVars, historyVars, dashVars, raceVars>>

\* client.create(SPREADSHEET_NAME)
CreateSpreadsheet ==
    /\ spc = "create"
    /\ remote' = [remote EXCEPT !.spreadsheet = TRUE]
    /\ sCreated' = [sCreated EXCEPT !.spreadsheet = TRUE]
    /\ spc' = "share"
    /\ UNCHANGED <<sCalls, sResult>>
    /\ UNCHANGED <<collectorVars, historyVars, dashVars, raceVars>>

\* spreadsheet.share(None, perm_type='anyone', role='reader')
ShareSpreadsheet ==
    /\ spc = "share"
    /\ remote' = [remote EXCEPT !.shares = @ + 1]
    /\ spc' = "worksheet"
    /\ UNCHANGED <<sCalls, sCreated, sResult>>
    /\ UNCHANGED <<collectorVars, historyVars, dashVars, raceVars>>

\* The worksheet found, headers appended all the same.
AfterWorksheetFoundWritesHeader == "header"

\* get_or_create_worksheet when spreadsheet.worksheet(name) returns: the
\* worksheet is returned as it is.
AfterWorksheetFound == "append"

\* get_or_create_worksheet: spreadsheet.worksheet(name) returns the
\* worksheet, or raises WorksheetNotFound and the except clause adds it.
OpenWorksheet ==
    /\ spc = "worksheet"
    /\ spc' = IF remote.worksheet THEN AfterWorksheetFound ELSE "add_ws"
    /\ UNCHANGED <<remote, sCalls, sCreated, sResult>>
    /\ UNCHANGED <<collectorVars, historyVars, dashVars, raceVars>>

\* spreadsheet.add_worksheet(title=name, rows=1000, cols=10)
AddWorksheet ==
    /\ spc = "add_ws"
    /\ remote' = [remote EXCEPT !.worksheet = TRUE]
    /\ sCreated' = [sCreated EXCEPT !.worksheet = TRUE]
    /\ spc' = "header"
    /\ UNCHANGED <<sCalls, sResult>>
    /\ UNCHANGED <<collectorVars, historyVars, dashVars, raceVars>>

\* worksheet.append_row(headers)
AppendHeader ==
    /\ spc = "header"
    /\ remote' = [remote EXCEPT !.headers = @ + 1]
    /\ spc' = "append"
    /\ UNCHANGED <<sCalls, sCreated, sResult>>
    /\ UNCHANGED <<collectorVars, historyVars, dashVars, raceVars>>

\* The rows are prepared, worksheet.append_rows(rows) succeeds, and the
\* URL is returned.
AppendRows ==
    /\ spc = "append"
    /\ remote' = [remote EXCEPT !.batches = @ + 1]
    /\ sResult' = "url"
    /\ spc' = "idle"
    /\ UNCHANGED <<sCalls, sCreated>>
    /\ UNCHANGED <<collectorVars, historyVars, dashVars, raceVars>>

SheetsInit == CollectorInit /\ HistoryIdle /\ SheetsScenario /\ DashIdle /\ RaceIdle

SheetsNext ==
    \/ SheetsCall
    \/ SheetsStepRaises
    \/ AuthStep
    \/ OpenSpreadsheet
    \/ CreateSpreadsheet
    \/ ShareSpreadsheet
    \/ OpenWorksheet
    \/ AddWorksheet
    \/ AppendHeader
    \/ AppendRows

\* A call once started runs to its end: every request of the client ends.
SheetsRunning ==
    \/ SheetsStepRaises
    \/ AuthStep
    \/ OpenSpreadsheet
    \/ CreateSpreadsheet
    \/ ShareSpreadsheet
    \/ OpenWorksheet
    \/ AddWorksheet
    \/ AppendHeader
    \/ AppendRows

SpecSheets == SheetsInit /\ [][SheetsNext]_vars /\ WF_vars(SheetsRunning)

\* ------------------------------------------------- history_dashboard.py
\* The full-history files the dashboard may find: none, a file of zero
\* bytes, a file with the header alone, and tables of n symbols.  Symbols
\* are numbered; symbol i has a row on day 1, and a second row on day 2
\* when i is even.  Rates are even, so that a mean of two is whole.
RatePatterns == {0, 1, 7}

DayOneRate(i, pat) == 2 * (((i * pat) % 47) - 23)

DayTwoRate(i, pat) == 2 * ((i * 3) % 5)

RECURSIVE HistoryTableRows(_, _)
HistoryTableRows(n, pat) ==
    IF n = 0 THEN <<>>
    ELSE HistoryTableRows(n - 1, pat)
         \o <<[symbol |-> n, day |-> 1, funding_rate |-> DayOneRate(n, pat)]>>
         \o (IF n % 2 = 0
             THEN <<[symbol |-> n, day |-> 2,
                     funding_rate |-> DayTwoRate(n, pat)]>>
             ELSE <<>>)

AbsentDashFile == [exists |-> FALSE, header |-> FALSE, rows |-> <<>>]

ZeroByteDashFile == [exists |-> TRUE, header |-> FALSE, rows |-> <<>>]

HeaderOnlyDashFile == [exists |-> TRUE, header |-> TRUE, rows |-> <<>>]

\* The same table with its days moved: days count from the picker's fixed
\* date, so the tables above lie after it and a table moved by -3 lies
\* before it.
ShiftDays(rows, shift) ==
    [i \in 1..Len(rows) |-> [rows[i] EXCEPT !.day = @ + shift]]

DayShifts == {-3, -2, -1}

DashFiles ==
    {AbsentDashFile, ZeroByteDashFile, HeaderOnlyDashFile}
    \cup {[exists |-> TRUE, header |-> TRUE, rows |-> HistoryTableRows(n, pat)] :
             n \in 1..MaxRankSymbols, pat \in RatePatterns}
    \cup {[exists |-> TRUE, header |-> TRUE,
           rows |-> ShiftDays(HistoryTableRows(n, pat), shift)] :
             n \in 1..MaxSyms, pat \in RatePatterns, shift \in DayShifts}

\* min_date = df["timestamp"].min().date()
MinDate(rows) ==
    CHOOSE d \in {rows[i].day : i \in 1..Len(rows)} :
        \A i \in 1..Len(rows) : d <= rows[i].day

\* max_date = df["timestamp"].max().date()
MaxDate(rows) ==
    CHOOSE d \in {rows[i].day : i \in 1..Len(rows)} :
        \A i \in 1..Len(rows) : d >= rows[i].day

\* value=(max(min_date, pd.Timestamp("2024-12-31").date()), max_date)
DefaultRange(rows) ==
    <<IF MinDate(rows) >= CUTOFF_DAY THEN MinDate(rows) ELSE CUTOFF_DAY,
      MaxDate(rows)>>

\* What st.date_input asks of a value given min_value and max_value.
WithinPicker(value, min_value, max_value) ==
    /\ min_value <= value[1]
    /\ value[1] <= value[2]
    /\ value[2] <= max_value

\* The ranges the picker lets the user choose.
DateRanges(rows) ==
    {r \in (MinDate(rows)..MaxDate(rows)) \X (MinDate(rows)..MaxDate(rows)) :
        r[1] <= r[2]}

\* load_history: pd.read_csv raises FileNotFoundError on an absent file and
\* EmptyDataError on a file without a header line.
LoadHistory(file) ==
    IF ~file.exists \/ ~file.header
    THEN [ok |-> FALSE, rows |-> <<>>]
    ELSE [ok |-> TRUE, rows |-> file.rows]

\* The rows of the date range.
RowsInRange(rows, range) ==
    SelectSeq(rows, LAMBDA r : r.day >= range[1] /\ r.day <= range[2])

RECURSIVE SumRates(_)
SumRates(rows) ==
    IF rows = <<>> THEN 0 ELSE Head(rows).funding_rate + SumRates(Tail(rows))

\* groupby("symbol")["funding_rate"].mean(), one entry per symbol in the
\* order of the symbols, times 24 * 365 * 100.
RECURSIVE GroupMeans(_, _)
GroupMeans(rows, sym) ==
    IF sym > MaxRankSymbols + 1 THEN <<>>
    ELSE LET mine == SelectSeq(rows, LAMBDA r : r.symbol = sym)
         IN (IF mine = <<>> THEN <<>>
             ELSE <<[symbol |-> sym,
                     value |-> (SumRates(mine) \div Len(mine))
                               * 24 * 365 * 100]>>)
            \o GroupMeans(rows, sym + 1)

\* .sort_values(ascending=True); the order among equal means is the sort's.
MeanRates(rows) ==
    SortSeq(GroupMeans(rows, 1), LAMBDA a, b : a.value < b.value)

\* The panel cut as soon as there are more than 20 symbols.
DisplayRatesCutEarly(mean_rates) ==
    IF Len(mean_rates) > RANK_SIDE
    THEN SubSeq(mean_rates, 1, RANK_SIDE)
         \o SubSeq(mean_rates, Len(mean_rates) - RANK_SIDE + 1, Len(mean_rates))
    ELSE mean_rates

\* head(20) and tail(20) when there are more than 40 symbols, else all.
DisplayRates(mean_rates) ==
    IF Len(mean_rates) > RANK_LIMIT
    THEN SubSeq(mean_rates, 1, RANK_SIDE)
         \o SubSeq(mean_rates, Len(mean_rates) - RANK_SIDE + 1, Len(mean_rates))
    ELSE mean_rates

\* The ranking panel: nothing is drawn when no row is in the range.
Ranking(rows, range) ==
    LET ranking_df == RowsInRange(rows, range)
    IN IF ranking_df = <<>> THEN <<>> ELSE DisplayRates(MeanRates(ranking_df))

\* The script starts on one of the files.
DashScenario ==
    /\ dFile \in DashFiles
    /\ dpc = "start"
    /\ dRange = <<0, 0>>
    /\ display = <<>>

\* df = load_history(), then the test of df.empty: the script ends with
\* the exception, stops with the warning, or goes on to the sidebar.
DashLoad ==
    /\ dpc = "start"
    /\ LET df == LoadHistory(dFile)
       IN dpc' = IF ~df.ok THEN "error"
                 ELSE IF df.rows = <<>> THEN "no_data"
                 ELSE "sidebar"
    /\ UNCHANGED <<dFile, dRange, display>>
    /\ UNCHANGED <<collectorVars, historyVars, sheetVars, raceVars>>

\* The sidebar: the symbols selected and the date range; with no symbol
\* selected the script stops with the hint to select one. The picker starts
\* on the default range; given a default it does not accept, st.date_input
\* raises or shows it as it is, depending on the Streamlit installed.
DashFilters ==
    /\ dpc = "sidebar"
    /\ LET rows == LoadHistory(dFile).rows
           value == DefaultRange(rows)
       IN \/ /\ \E range \in DateRanges(rows) \cup {value} : dRange' = range
             /\ \E anySelected \in BOOLEAN :
                   dpc' = IF anySelected THEN "panels" ELSE "no_selection"
          \/ /\ ~WithinPicker(value, MinDate(rows), MaxDate(rows))
             /\ dpc' = "error"
             /\ dRange' = dRange
    /\ UNCHANGED <<dFile, display>>
    /\ UNCHANGED <<collectorVars, historyVars, sheetVars, raceVars>>

\* The panels are drawn, the ranking among them.
DashRank ==
    /\ dpc = "panels"
    /\ display' = Ranking(LoadHistory(dFile).rows, dRange)
    /\ dpc' = "shown"
    /\ UNCHANGED <<dFile, dRange>>
    /\ UNCHANGED <<collectorVars, historyVars, sheetVars, raceVars>>

DashInit == CollectorInit /\ HistoryIdle /\ SheetsIdle /\ DashScenario /\ RaceIdle

DashNext ==
    \/ DashLoad
    \/ DashFilters
    \/ DashRank

\* The script runs top to bottom.
SpecDashboard == DashInit /\ [][DashNext]_vars /\ WF_vars(DashNext)

\* ------------------------------- src/storage.py, two collectors at once
\* Two collector processes (run_collector.main twice: the scheduler and a
\* --once run, say) are each inside save_funding_rates while the
\* recent-rates file is absent. Each has fetched a snapshot of its own.
Savers == {1, 2}

RaceSnapshots(times) ==
    {SnapshotRows(nC, funding, t) :
        nC \in 0..MaxSyms, funding \in FundingVals, t \in times}

RaceScenario ==
    /\ rFile = AbsentFile
    /\ rpc = <<"check", "check">>
    /\ rSeen = <<FALSE, FALSE>>
    /\ \E r1 \in RaceSnapshots({1}), r2 \in RaceSnapshots({1, 2}) :
          rRows = <<r1, r2>>

\* file_exists = os.path.exists(FUNDING_RATES_FILE)
CheckExists(p) ==
    /\ rpc[p] = "check"
    /\ rSeen' = [rSeen EXCEPT ![p] = rFile.exists]
    /\ rpc' = [rpc EXCEPT ![p] = "open"]
    /\ UNCHANGED <<rFile, rRows>>
    /\ UNCHANGED <<collectorVars, historyVars, sheetVars, dashVars>>

\* df.to_csv(..., mode='a', ...) opens the file for appending, which creates
\* it when it is absent.
OpenAppend(p) ==
    /\ rpc[p] = "open"
    /\ rFile' = [rFile EXCEPT !.exists = TRUE]
    /\ rpc' = [rpc EXCEPT ![p] = "write"]
    /\ UNCHANGED <<rSeen, rRows>>
    /\ UNCHANGED <<collectorVars, historyVars, sheetVars, dashVars>>

\* df.to_csv(..., header=not file_exists, index=False) writes its text at
\* the end of the file and closes it.
WriteCsv(p) ==
    /\ rpc[p] = "write"
    /\ rFile' = [rFile EXCEPT
                    !.lines = rFile.lines \o ToCsvLines(rRows[p], ~rSeen[p])]
    /\ rpc' = [rpc EXCEPT ![p] = "done"]
    /\ UNCHANGED <<rSeen, rRows>>
    /\ UNCHANGED <<collectorVars, historyVars, sheetVars, dashVars>>

RaceInit ==
    CollectorInit /\ HistoryIdle /\ SheetsIdle /\ DashIdle /\ RaceScenario

RaceNext == \E p \in Savers : CheckExists(p) \/ OpenAppend(p) \/ WriteCsv(p)

SpecRace == RaceInit /\ [][RaceNext]_vars /\ WF_vars(RaceNext)

\* ================================================================ claims
IsPrefix(s, t) == Len(s) <= Len(t) /\ SubSeq(t, 1, Len(s)) = s

\* The lines from position n + 1 on.
LinesAfter(t, n) == SubSeq(t, n + 1, Len(t))

\* A header line: the column names, or the empty header of a frame
\* without columns.
IsHeader(line) == line = HeaderLine \/ line = <<>>

\* C1: collect_funding_rates makes at most MAX_RETRIES (3) attempts; it
\* returns True at the first attempt whose fetch and save both complete and
\* attempts nothing after it; it returns False exactly when all 3 attempts
\* raised; it has no way out but returning True or False.
C1_RetryContract ==
    /\ pc \in {"idle", "fetch", "save", "sheets", "except", "return"}
    /\ attempt + 1 <= 3
    /\ nRaised <= 3
    /\ pc \in {"fetch", "save"} => nRaised = attempt /\ nSaves = 0
    /\ pc = "except" => nRaised = attempt /\ nSaves = 0
    /\ nSaves >= 1 => pc \in {"sheets", "return"} /\ nSaves = 1
    /\ pc = "return" =>
          /\ result \in {"True", "False"}
          /\ result = "True" <=> nSaves = 1
          /\ result = "True" => nRaised = attempt
          /\ result = "False" <=> nRaised = 3
    /\ pc # "return" => result = "none"

C1_Witness ==
    pc = "return" /\ result = "True" /\ nRaised = 2 /\ attempt = 2

\* C2: the export is attempted only with use_sheets and only after the fetch
\* and the save of that attempt succeeded; whatever it does,
\* collect_funding_rates returns True, attempts no further fetch or save, and
\* the recent-rates file stays as the save left it.
C2_ExportContained ==
    /\ [](/\ pc = "sheets" => use_sheets /\ nSaves = 1 /\ nExports = 0
          /\ nExports <= 1
          /\ nExports = 1 => /\ use_sheets
                             /\ nSaves = 1
                             /\ pc = "return"
                             /\ result = "True"
          /\ pc = "return" /\ result = "True" =>
                nExports = (IF use_sheets THEN 1 ELSE 0))
    /\ [][pc = "sheets" =>
            /\ recentFile' = recentFile
            /\ savedRuns' = savedRuns
            /\ nSaves' = nSaves
            /\ pc' = "return"
            /\ result' = "True"]_vars

C2_Witness ==
    pc = "return" /\ result = "True" /\ lastExport = "raised" /\ nRaised = 0

\* C3: the recent-rates file only grows by appending: its content before a
\* step is a prefix of its content after it, and a header row is among the
\* appended lines only if the file did not exist before.
C3_AppendOnly ==
    [][/\ IsPrefix(recentFile.lines, recentFile'.lines)
       /\ recentFile.exists => recentFile'.exists
       /\ \A i \in 1..Len(LinesAfter(recentFile'.lines, Len(recentFile.lines))) :
             IsHeader(LinesAfter(recentFile'.lines, Len(recentFile.lines))[i])
                => ~recentFile.exists]_vars

C3_Witness ==
    /\ Len(savedRuns) = 2
    /\ savedRuns[1].rows # <<>>
    /\ savedRuns[2].rows # <<>>
    /\ Len(recentFile.lines) = 1 + Len(savedRuns[1].rows) + Len(savedRuns[2].rows)

RECURSIVE SumSeq(_)
SumSeq(q) == IF q = <<>> THEN 0 ELSE Head(q) + SumSeq(Tail(q))

Range(q) == {q[i] : i \in 1..Len(q)}

Count(q, x) == Cardinality({i \in 1..Len(q) : q[i] = x})

\* The two sequences hold the same rows, each as often.
SameRows(a, b) ==
    /\ Len(a) = Len(b)
    /\ Range(a) = Range(b)
    /\ Cardinality(Range(a)) # Len(a) =>
          \A x \in Range(a) : Count(a, x) = Count(b, x)

\* C4: fetch_funding_history goes on after a page of 500 entries and stops
\* at the first page that is empty or shorter: when it returns, every page
\* but the last had 500 entries, the last had fewer, the requests made are
\* as many as the pages, and the rows are as many as the entries of the
\* pages (500 then 0: 2 requests, 500 rows; 499: 1 request, 499 rows).
C4_PaginationStops ==
    /\ hpc \in {"page", "fh_return"} =>
          /\ Len(startTimes) = Len(pageSizes)
          /\ Len(fh_rows) = SumSeq(pageSizes)
    /\ hpc = "page" => \A i \in 1..Len(pageSizes) : pageSizes[i] = 500
    /\ hpc = "fh_return" =>
          /\ Len(pageSizes) >= 1
          /\ \A i \in 1..(Len(pageSizes) - 1) : pageSizes[i] = 500
          /\ pageSizes[Len(pageSizes)] < 500

C4_Witness ==
    hpc = "fh_return" /\ pageSizes = <<500, 0>> /\ Len(fh_rows) = 500

\* C5: on a coin whose entries have distinct times, fetch_funding_history
\* asks first for startTime 0 and then for the last returned entry's time
\* + 1, so the startTimes strictly increase; it makes at most n div 500 + 1
\* requests and ends; and it returns the entries of the history, each once,
\* in ascending time.
C5_Inv ==
    hpc \in {"page", "fh_return"} /\ ~exchangeHist[coins[idx]].dup =>
        LET shape == exchangeHist[coins[idx]]
            coin == coins[idx]
        IN /\ hpc = "page" =>
                 start_time = IF pageSizes = <<>> THEN 0
                              ELSE Entry(coin, shape, Len(fh_rows)).time + 1
           /\ startTimes # <<>> => startTimes[1] = 0
           /\ \A i \in 1..(Len(startTimes) - 1) :
                 startTimes[i] < startTimes[i + 1]
           /\ Len(startTimes) <= (shape.n \div 500) + 1
           /\ hpc = "fh_return" =>
                 fh_rows = [i \in 1..shape.n |->
                               HistoryRow(Entry(coin, shape, i))]

C5_CompleteHistory ==
    /\ []C5_Inv
    /\ (hpc = "page") ~> (hpc \in {"fh_return", "except"})

C5_Witness ==
    /\ hpc = "fh_return"
    /\ exchangeHist[coins[idx]] = [n |-> 1000, dup |-> FALSE]
    /\ startTimes = <<0, 249501, 499501>>
    /\ Len(fh_rows) = 1000

\* The rows of the coins entries from i on that were fetched, in list order.
RECURSIVE FetchedFrom(_)
FetchedFrom(i) ==
    IF i > Len(coins) THEN <<>>
    ELSE (IF fetched[i]
          THEN Paginate(coins[i], exchangeHist[coins[i]], <<>>, 0)
          ELSE <<>>) \o FetchedFrom(i + 1)

\* C6: fetch_all_funding_history calls fetch_funding_history at most 3 times
\* for an entry of the coins list and not again once a call returned; an entry
\* whose 3 calls raised is skipped: the entries after it are processed in
\* list order, the rows of every fetched entry are in the returned table,
\* and the failed entry does not make the backfill raise.
C6_SkipFailedSymbol ==
    /\ hpc \in {"call", "page", "fh_return", "except"} =>
          /\ hAttempt \in 1..3
          /\ idx \in 1..Len(coins)
          /\ \A j \in idx..Len(coins) : ~fetched[j]
    /\ hpc = "raised" => idx = 0
    /\ hpc \in {"finish", "done"} =>
          /\ idx = Len(coins)
          /\ all_rows = FetchedFrom(1)
    /\ hpc = "done" => Range(all_rows) \subseteq Range(returned)

C6_Witness ==
    /\ hpc = "done"
    /\ Len(coins) = 2
    /\ ~fetched[1]
    /\ fetched[2]
    /\ exchangeHist[coins[2]].n = 500
    /\ Len(returned) = 500

IsSortedHistory(rows) ==
    \A i \in 1..(Len(rows) - 1) : ~RowBefore(rows[i + 1], rows[i])

\* C7: when fetch_all_funding_history has collected a row, the full-history
\* file afterwards holds the rows collected in this call and no others,
\* sorted by (symbol, timestamp); when it has collected none, the file is
\* as it was before the call and the returned table is empty.
C7_ReplaceOrLeave ==
    /\ hpc # "done" => historyFile = fileAtStart
    /\ hpc = "done" /\ all_rows # <<>> =>
          /\ historyFile.exists
          /\ SameRows(all_rows, historyFile.rows)
          /\ IsSortedHistory(historyFile.rows)
          /\ returned = historyFile.rows
    /\ hpc = "done" /\ all_rows = <<>> =>
          /\ historyFile = fileAtStart
          /\ returned = <<>>

C7_Witness ==
    /\ hpc = "done"
    /\ fileAtStart = StaleHistoryFile
    /\ coins = <<"ETH", "BTC">>
    /\ fetched[1]
    /\ fetched[2]
    /\ Len(all_rows) = 1499
    /\ all_rows[1].symbol = "ETH"
    /\ historyFile.rows[1].symbol = "BTC"

\* C8: run_scheduler runs one collection at once, and registers the job
\* only after it has returned; the job is registered once and is due 3600
\* seconds later, and again 3600 seconds after each run; the loop looks for
\* due jobs, sleeps 60 seconds and looks again, for ever: run_scheduler never
\* returns, and after a collection that returned False (the immediate one
\* or a scheduled one) a scheduled collection starts again.
C8_SchedulerState ==
    /\ proc = "scheduler" <=> schedPc # "off"
    /\ schedPc \in {"off", "immediate", "register", "run_pending", "sleep",
                    "job"}
    /\ schedPc = "immediate" =>
          immediateRuns = 0 /\ jobsRegistered = 0 /\ pc # "idle"
    /\ schedPc = "register" =>
          immediateRuns = 1 /\ jobsRegistered = 0 /\ pc = "idle"
    /\ schedPc \in {"run_pending", "sleep"} =>
          /\ immediateRuns = 1 /\ jobsRegistered = 1 /\ pc = "idle"
          /\ untilDue \in 0..3600 /\ untilDue % 60 = 0
    /\ schedPc = "job" =>
          /\ immediateRuns = 1 /\ jobsRegistered = 1 /\ pc # "idle"
          /\ untilDue = 0

C8_SchedulerStep ==
    /\ proc = "scheduler" => proc' = "scheduler"
    /\ schedPc = "immediate" /\ schedPc' # "immediate" =>
          pc = "return" /\ schedPc' = "register"
    /\ schedPc = "register" /\ schedPc' # "register" =>
          schedPc' = "run_pending" /\ untilDue' = 3600
    /\ schedPc = "run_pending" /\ schedPc' # "run_pending" =>
          /\ schedPc' = (IF untilDue = 0 THEN "job" ELSE "sleep")
          /\ schedPc' = "job" => pc' = "fetch"
    /\ schedPc = "sleep" /\ schedPc' # "sleep" =>
          schedPc' = "run_pending" /\ untilDue' = untilDue - 60
    /\ schedPc = "job" /\ schedPc' # "job" =>
          pc = "return" /\ schedPc' = "sleep" /\ untilDue' = 3600

C8_RunScheduler ==
    /\ []C8_SchedulerState
    /\ [][C8_SchedulerStep]_vars
    /\ (proc = "scheduler" /\ pc = "return" /\ result = "False")
          ~> (schedPc = "job" /\ pc = "fetch")

C8_Witness ==
    /\ schedPc = "job"
    /\ pc = "return"
    /\ result = "False"
    /\ savedRuns = <<>>

\* A saved record as load_funding_rates gives it back: the timestamp a
\* datetime, the numbers as fetched.
LoadedRow(r, at) ==
    [timestamp |-> at, symbol |-> r.symbol, funding_rate |-> r.funding_rate,
     mark_price |-> r.mark_price, day_ntl_vlm |-> r.day_ntl_vlm,
     open_interest |-> r.open_interest]

LoadedRun(run) == [i \in 1..Len(run.rows) |-> LoadedRow(run.rows[i], run.at)]

\* The runs that saved a record.
RunsWithRows == {k \in 1..Len(savedRuns) : savedRuns[k].rows # <<>>}

LatestRun == savedRuns[CHOOSE k \in RunsWithRows : \A j \in RunsWithRows : j <= k]

\* C9: after any sequence of collection runs, get_latest_rates returns
\* all the rows of the latest run that saved a record and no row of an
\* earlier run, and an empty result when no record was saved.
C9_LatestRun ==
    view.op = "get_latest_rates" =>
        /\ view.res.ok
        /\ IF RunsWithRows = {}
           THEN view.res.rows = <<>>
           ELSE SameRows(view.res.rows, LoadedRun(LatestRun))

C11_LoadAbsentFile ==
    /\ [](view.op \in {"load_funding_rates", "load_funding_rates_days"}
             /\ ~recentFile.exists
          => /\ view.res.ok
             /\ view.res.rows = <<>>
             /\ view.res.columns =
                   <<"timestamp", "symbol", "funding_rate", "mark_price">>)
    /\ [][view'.op \in {"load_funding_rates", "load_funding_rates_days"}
             => recentFile' = recentFile]_vars

C11_Witness ==
    /\ view.op = "load_funding_rates_days"
    /\ ~recentFile.exists
    /\ view.res.ok
    /\ nRaised = 3

\* C12: append_funding_rates never raises: a call ends by returning the
\* URL or None; whatever step fails (authentication, opening or creating the
\* spreadsheet, sharing it, opening or adding the worksheet, the header,
\* the batch append) it returns None; it returns the URL only at the end
\* of the batch append, with the spreadsheet and the worksheet in place.
C12_NeverRaises ==
    /\ [](/\ sResult \in {"none", "url", "None"}
          /\ spc = "idle" /\ sCalls > 0 => sResult \in {"url", "None"}
          /\ spc # "idle" => sResult = "none")
    /\ [][/\ spc # "idle" /\ spc' = "idle" =>
                IF spc = "append" /\ remote'.batches = remote.batches + 1
                THEN sResult' = "url" /\ remote.spreadsheet /\ remote.worksheet
                ELSE sResult' = "None" /\ remote' = remote
          /\ sResult' = "url" /\ spc # "idle" => spc = "append"]_vars
    /\ (spc # "idle") ~> (spc = "idle")

C12_Witness ==
    /\ spc = "idle"
    /\ sResult = "None"
    /\ sCreated.spreadsheet
    /\ remote.spreadsheet
    /\ remote.shares = 0
    /\ ~remote.worksheet

\* C20: over any sequence of calls, the header row is written only by the
\* call that added the worksheet, so at most once, and the link sharing
\* is set only by the call that created the spreadsheet; a worksheet or
\* a spreadsheet is created only when none was found, and a call that
\* finds it writes no header and changes no sharing.
C20_CreateOnce ==
    /\ [](remote.headers <= 1 /\ remote.shares <= 1)
    /\ [][/\ remote'.headers # remote.headers =>
                /\ remote'.headers = remote.headers + 1
                /\ sCreated.worksheet
          /\ remote'.shares # remote.shares =>
                /\ remote'.shares = remote.shares + 1
                /\ sCreated.spreadsheet
          /\ sCreated'.worksheet /\ ~sCreated.worksheet => ~remote.worksheet
          /\ sCreated'.spreadsheet /\ ~sCreated.spreadsheet
                => ~remote.spreadsheet
          /\ remote.worksheet => remote'.worksheet
          /\ remote.spreadsheet => remote'.spreadsheet]_vars

C20_Witness ==
    /\ sCalls = 2
    /\ spc = "idle"
    /\ sResult = "url"
    /\ remote.batches = 2
    /\ remote.headers = 1
    /\ remote.shares = 1
    /\ sCreated = NothingCreated

\* C13: the history dashboard stops with the guidance message, and does
\* not end in an unhandled error, when the full-history file is absent and
\* when it is empty.
C13_GuidanceOnMissing ==
    dpc # "start" /\ (~dFile.exists \/ dFile.rows = <<>>) => dpc = "no_data"

\* The symbols with a row in the chosen date range.
SymbolsInRange ==
    {dFile.rows[k].symbol :
        k \in {j \in 1..Len(dFile.rows) :
                  dFile.rows[j].day >= dRange[1] /\ dFile.rows[j].day <= dRange[2]}}

RECURSIVE SumOfRows(_)
SumOfRows(idxs) ==
    IF idxs = {} THEN 0
    ELSE LET j == CHOOSE k \in idxs : TRUE
         IN dFile.rows[j].funding_rate + SumOfRows(idxs \ {j})

\* The annualized mean rate of a symbol over the chosen date range.
MeanInRange(sym) ==
    LET idxs == {j \in 1..Len(dFile.rows) :
                    /\ dFile.rows[j].symbol = sym
                    /\ dFile.rows[j].day >= dRange[1]
                    /\ dFile.rows[j].day <= dRange[2]}
    IN (SumOfRows(idxs) \div Cardinality(idxs)) * 876000

\* C17: the ranking panel shows every symbol of the date range when there
\* are at most 40, and 40 rows when there are more: the 20 symbols of lowest
\* mean rate and then the 20 of highest, in ascending order of mean rate,
\* no symbol twice.
C17_RankingPanel ==
    dpc = "shown" =>
        LET n == Cardinality(SymbolsInRange)
            shown == {display[k].symbol : k \in 1..Len(display)}
        IN /\ Len(display) = IF n > 40 THEN 40 ELSE n
           /\ Cardinality(shown) = Len(display)
           /\ shown \subseteq SymbolsInRange
           /\ \A k \in 1..Len(display) :
                 display[k].value = MeanInRange(display[k].symbol)
           /\ \A k \in 1..(Len(display) - 1) :
                 display[k].value <= display[k + 1].value
           /\ n > 40 =>
                 \A sym \in SymbolsInRange \ shown :
                    /\ display[20].value <= MeanInRange(sym)
                    /\ MeanInRange(sym) <= display[21].value

C17_Witness ==
    /\ dpc = "shown"
    /\ Cardinality(SymbolsInRange) = 45
    /\ Len(display) = 40
    /\ display[1].value < display[40].value
    /\ dRange = <<1, 2>>

\* C14: when the response lists a number of symbols different from its
\* number of asset contexts, more or fewer, fetch_funding_rates raises and
\* returns no rows.
C14_MismatchRaises ==
    view.op = "fetch_funding_rates" /\ view.nU # view.nC =>
        ~view.res.ok /\ pc = "except"

\* C15: run_history ends with status 0 when the backfill returned a row,
\* also when a symbol failed all its attempts, and with status 1 exactly
\* when the backfill returned no row.
C15_HistoryExitStatus ==
    /\ [](/\ histExit \in {-1, 0, 1}
          /\ histExit # -1 =>
                /\ hpc \in {"done", "raised"}
                /\ histExit = 0 <=> returned # <<>>
                /\ histExit = 1 <=> returned = <<>>)
    /\ <>(histExit # -1)

C15_Witness ==
    /\ histExit = 0
    /\ Len(coins) = 2
    /\ ~fetched[1]
    /\ fetched[2]
    /\ returned # <<>>

\* C16: with --once the collector makes one collect_funding_rates call,
\* with use_sheets as --sheets says, starts no scheduler, and exits with
\* status 0 when the call returned True and 1 when it returned False.
C16_OnceMode ==
    /\ [](/\ proc = "once" =>
                /\ schedPc = "off" /\ jobsRegistered = 0 /\ immediateRuns = 0
                /\ pc # "idle"
                /\ exitCode = -1
                /\ nExports > 0 => use_sheets
          /\ exitCode \in {-1, 0, 1})
    /\ [][/\ proc # "once" /\ proc' = "once" =>
                pc' = "fetch" /\ attempt' = 0 /\ nSaves' = 0
          /\ proc = "once" /\ proc' = "once" =>
                /\ use_sheets' = use_sheets
                /\ ~(pc # "fetch" /\ pc' = "fetch" /\ attempt' = 0)
                /\ pc = "return" => pc' = "return"
          /\ proc = "once" /\ proc' # "once" =>
                /\ pc = "return"
                /\ proc' = "none"
                /\ exitCode' = (IF result = "True" THEN 0 ELSE 1)]_vars
    /\ (proc = "once") ~> (proc = "none" /\ exitCode \in {0, 1})

C16_Witness ==
    /\ proc = "none"
    /\ exitCode = 1
    /\ schedPc = "off"
    /\ savedRuns = <<>>

\* The symbols of the records saved so far.
SavedSymbols ==
    UNION {{savedRuns[k].rows[i].symbol : i \in 1..Len(savedRuns[k].rows)} :
              k \in 1..Len(savedRuns)}

\* C18: after any sequence of saves get_available_symbols returns the
\* symbols of the recent-rates file in ascending order, each once, and
\* the empty list when no record was saved.
C18_SortedSymbols ==
    view.op = "get_available_symbols" =>
        /\ view.res.ok
        /\ {view.res.rows[i] : i \in 1..Len(view.res.rows)} = SavedSymbols
        /\ \A i \in 1..(Len(view.res.rows) - 1) :
              SymbolBefore(view.res.rows[i], view.res.rows[i + 1])

\* C19: collect_funding_rates sleeps the retry delay after a failed attempt
\* exactly when another attempt follows: never after an attempt that
\* succeeded and not after the 3rd failed attempt; a call whose attempts
\* all fail has slept 2 times, a call that succeeds on attempt k has slept
\* k - 1 times.
C19_RetryDelays ==
    /\ [](/\ nDelays <= 2
          /\ pc \in {"fetch", "save", "sheets"} => nDelays = attempt
          /\ pc = "return" /\ result = "False" => nDelays = 2
          /\ pc = "return" /\ result = "True" => nDelays = (attempt + 1) - 1)
    /\ [][/\ nDelays' > nDelays =>
                /\ nDelays' = nDelays + 1
                /\ pc = "except"
                /\ pc' = "fetch"
                /\ attempt' = attempt + 1
          /\ pc = "except" /\ pc' = "fetch" => nDelays' = nDelays + 1
          /\ pc = "except" /\ pc' = "return" => nDelays' = nDelays]_vars

C19_Witness ==
    /\ pc = "return"
    /\ result = "False"
    /\ nDelays = 2
    /\ nRaised = 3

\* The saved records of the runs from k on, as load_funding_rates gives
\* them back.
RECURSIVE LoadedFrom(_)
LoadedFrom(k) ==
    IF k > Len(savedRuns) THEN <<>>
    ELSE LoadedRun(savedRuns[k]) \o LoadedFrom(k + 1)

\* C21: starting from an absent file, after any sequence of completed
\* save_funding_rates calls, calls with an empty record list among them,
\* the file begins with the header row naming the six columns, holds no
\* other header row, and load_funding_rates succeeds and returns every
\* row that was saved.
C21_OneHeaderAllRows ==
    recentFile.exists =>
        /\ recentFile.lines # <<>>
        /\ recentFile.lines[1] = HeaderLine
        /\ \A i \in 2..Len(recentFile.lines) : ~IsHeader(recentFile.lines[i])
        /\ LoadFundingRates(recentFile).ok
        /\ SameRows(LoadFundingRates(recentFile).rows, LoadedFrom(1))

\* The coins list names no symbol twice.
DistinctCoins == \A i, j \in 1..Len(coins) : coins[i] = coins[j] => i = j

\* No row is twice in the table.
NoRowTwice == Cardinality(Range(all_rows)) = Len(all_rows)

\* The rows of an attempt that raised are discarded, the call that follows
\* starts again from startTime 0, and the table always holds, for each
\* entry of the coins list, all the rows of one complete pagination or none.
AttemptsAreAtomic ==
    /\ all_rows = FetchedFrom(1)
    /\ hpc = "except" => fh_rows = <<>>
    /\ hpc = "page" =>
          IF startTimes = <<>> THEN start_time = 0 /\ fh_rows = <<>>
          ELSE startTimes[1] = 0

\* C22 as stated: an attempt that raises part-way contributes no rows, the
\* retry restarts from startTime 0, each symbol's rows come from one
\* successful attempt, and no history entry is present twice in the final
\* table, whatever the coins list.
C22_NoEntryTwice ==
    /\ AttemptsAreAtomic
    /\ hpc \in {"finish", "done"} => NoRowTwice

\* C22, amended: the same, for a coins list that names each symbol once; a
\* symbol named twice is fetched once per entry and its rows are in the
\* table once per fetched entry.
C22_OneAttemptPerEntry ==
    /\ AttemptsAreAtomic
    /\ hpc \in {"finish", "done"} /\ DistinctCoins => NoRowTwice

\* The first attempt raised after its first page, whose rows were dropped;
\* the second started again at 0 and fetched the whole history.
C22_Witness ==
    /\ hpc = "fh_return"
    /\ coins = <<"ETH">>
    /\ hAttempt = 2
    /\ dropped = PAGE_LIMIT
    /\ all_rows = <<>>
    /\ startTimes[1] = 0
    /\ exchangeHist["ETH"] = [n |-> 2 * PAGE_LIMIT, dup |-> FALSE]
    /\ Len(fh_rows) = 2 * PAGE_LIMIT

\* The step is a completed save_funding_rates: it records a saved run.
SaveCompleted == savedRuns' # savedRuns

\* C23: within one collect_funding_rates call save_funding_rates completes
\* at most once, the file changes only in that step, by the rows of one
\* snapshot that carry one shared timestamp, and a call that returns False
\* has had no save complete.
C23_SaveAtMostOnce ==
    /\ [](nSaves <= 1)
    /\ [](pc = "return" /\ result = "False" => nSaves = 0)
    /\ [](pc = "return" /\ result = "True" => nSaves = 1)
    /\ [][ /\ recentFile' # recentFile => SaveCompleted
           /\ SaveCompleted =>
                 /\ pc = "save" /\ nSaves = 0 /\ nSaves' = 1
                 /\ savedRuns' = Append(savedRuns, [at |-> clock, rows |-> rates])
                 /\ \A i \in 1..Len(rates) :
                        rates[i].timestamp = IsoFormat(clock)
                 /\ Len(recentFile'.lines) - Len(recentFile.lines)
                        \in {Len(rates), Len(rates) + 1} ]_vars

\* The call saved a snapshot of two rows on its second attempt.
C23_Witness ==
    /\ pc = "return"
    /\ result = "True"
    /\ nSaves = 1
    /\ nRaised = 1
    /\ Len(rates) = 2
    /\ rates[1].timestamp = rates[2].timestamp

\* The call gave up after three raising attempts and saved nothing.
C23_ReturnsFalse ==
    /\ pc = "return"
    /\ result = "False"
    /\ nSaves = 0
    /\ savedRuns = <<>>

\* Both collectors have returned from save_funding_rates.
BothSaved == rpc = <<"done", "done">>

\* C24: two collectors save non-empty snapshots at once while the file is
\* absent; under every interleaving of their existence checks and writes
\* the file ends up with the header row at its first line and no other
\* header row.
C24_OneHeaderUnderRace ==
    BothSaved /\ rRows[1] # <<>> /\ rRows[2] # <<>> =>
        /\ rFile.lines # <<>>
        /\ rFile.lines[1] = HeaderLine
        /\ \A i \in 2..Len(rFile.lines) : rFile.lines[i] # HeaderLine

\* Both collectors saw the file absent; each wrote a header row.
C24_TwoHeaders ==
    /\ BothSaved
    /\ rSeen = <<FALSE, FALSE>>
    /\ Len(rRows[1]) = 1
    /\ Len(rRows[2]) = 1
    /\ Len(rFile.lines) = 4
    /\ rFile.lines[1] = HeaderLine
    /\ rFile.lines[3] = HeaderLine

\* The second collector found the file the first had just created and
\* wrote its rows before the first wrote the header row.
C24_HeaderNotFirst ==
    /\ BothSaved
    /\ rSeen = <<FALSE, TRUE>>
    /\ Len(rRows[1]) = 1
    /\ Len(rRows[2]) = 1
    /\ rFile.lines[1] # HeaderLine
    /\ rFile.lines[2] = HeaderLine

\* C25: for every non-empty full-history file the default date range of
\* the date picker is valid: its start is not after its end and both lie
\* within [min_date, max_date], also when all data is earlier than the
\* fixed date.
C25_DefaultRangeValid ==
    dpc # "start" /\ LoadHistory(dFile).ok /\ LoadHistory(dFile).rows # <<>> =>
        LET rows == LoadHistory(dFile).rows
            value == DefaultRange(rows)
        IN /\ value[1] <= value[2]
           /\ MinDate(rows) <= value[1] /\ value[1] <= MaxDate(rows)
           /\ MinDate(rows) <= value[2] /\ value[2] <= MaxDate(rows)

\* All data is earlier than the fixed date: the default range starts at the
\* fixed date, after max_date, and the panels are drawn on no rows.
C25_AllBeforeCutoff ==
    /\ dpc = "shown"
    /\ MaxDate(dFile.rows) < CUTOFF_DAY
    /\ dRange = DefaultRange(dFile.rows)
    /\ dRange[1] > dRange[2]
    /\ display = <<>>

\* The data spans the fixed date: the default range starts at it.
C25_SpansCutoff ==
    /\ dpc = "shown"
    /\ MinDate(dFile.rows) < CUTOFF_DAY
    /\ MaxDate(dFile.rows) = CUTOFF_DAY
    /\ dRange = <<CUTOFF_DAY, CUTOFF_DAY>>
    /\ dRange = DefaultRange(dFile.rows)

================================================================================
